---- MODULE Spec2Model ----
(***************************************************************************)
(* CloudOS kernel core: the bump allocator (src/allocator/bump.rs,         *)
(* src/allocator.rs) and the boot-info frame allocator (src/memory.rs).    *)
(*                                                                         *)
(* Addresses are usize values.  The model keeps the machine width but      *)
(* scales it from 64 bits to USIZE_BITS bits; every arithmetic step of the *)
(* code is computed in that width.  An arithmetic overflow of a plain      *)
(* `+`/`-` has two outcomes, one per build profile: a panic (overflow      *)
(* checks on) or the wrapped value (overflow checks off).                  *)
(***************************************************************************)
EXTENDS Integers, Sequences, FiniteSets, TLC

----------------------------------------------------------------------------
(* Bounds of the model *)

\* width of usize in bits (64 in the kernel)
USIZE_BITS == 4
\* the several-byte request size drawn for alloc
MaxSize == 2
\* largest heap_size drawn for init
MaxHeapSize == 3
\* cap on the allocation count: callers hold at most this many blocks
MaxLive == 2

USIZE_MAX == 2^USIZE_BITS - 1

----------------------------------------------------------------------------
(* State *)

VARIABLES
  overflow_checks,   \* the build profile: TRUE = `+`/`-` panic on overflow, FALSE = they wrap
  bump,              \* the BumpAllocator: [heap_start, heap_end, next, allocations]
  inited,            \* whether BumpAllocator::init has run
  halted,            \* the kernel panicked (the panic handler never returns)
  live,              \* blocks handed to callers and not yet released: <<[addr, size]>>
  last,              \* the latest allocator call: its kind, its layout, the pointer
                     \* returned or released, the allocator as it was before the call
                     \* (pre), and whether the call before it was an alloc that
                     \* returned null (after_null)
  boot_info,         \* the BootInfo the boot loader passed: [memory_map]
  frame_allocator,   \* the BootInfoFrameAllocator: [memory_map, next]
  frames,            \* what the calls of allocate_frame returned so far, in order
  mapper,            \* the active page table: [tables, entries]
  heap_init,         \* the call of init_heap: [called, ok, err, page]
  writer,            \* the display Writer: [column_position, color_code, chars, panicked]
  prints,            \* the calls made on the display so far: <<[op, s, pre]>>
  cpu,               \* the CPU's registers: [gdtr, cs, tr, idtr, interrupts_enabled]
  statics,           \* STACK's address and the lazy statics TSS, GDT, IDT: [built, value]
  stack,             \* the contexts on the CPU, kernel_main first, the running one last
  locks,             \* the spin locks: the depth in `stack` of the holder, 0 when free
  in_service,        \* the interrupt lines raised and not yet acknowledged
  machine,           \* [state, fault]: "running", or "reset" by the triple fault that
                     \* ended the delivery of vector fault
  last_run,          \* the latest handler run that returned
  delivered,         \* interrupts and exceptions delivered so far
  locked             \* the calls of alloc and dealloc under way, statement by statement:
                     \* [lock, order, start, of], of[t] = [op, pc, alloc_start, alloc_end, ret]

bump_vars == <<bump, inited, halted, live, last, locked>>

frame_vars == <<boot_info, frame_allocator, frames>>

heap_vars == <<mapper, heap_init>>

vga_vars == <<writer, prints>>

machine_vars == <<cpu, statics, stack, locks, in_service, machine, last_run, delivered>>

\* the kernel's state beyond the two allocators
kernel_vars == <<heap_vars, vga_vars, machine_vars>>

vars == <<overflow_checks, bump_vars, frame_vars, kernel_vars>>

----------------------------------------------------------------------------
(* usize arithmetic *)

\* the result of an arithmetic step that panicked
Panicked == [panic |-> TRUE, val |-> 0]

\* a + b on usize
usize_add(a, b) ==
  IF a + b <= USIZE_MAX THEN [panic |-> FALSE, val |-> a + b]
  ELSE IF overflow_checks THEN Panicked
  ELSE [panic |-> FALSE, val |-> (a + b) % (USIZE_MAX + 1)]

\* a - b on usize
usize_sub(a, b) ==
  IF a >= b THEN [panic |-> FALSE, val |-> a - b]
  ELSE IF overflow_checks THEN Panicked
  ELSE [panic |-> FALSE, val |-> a - b + USIZE_MAX + 1]

\* usize::checked_add: None on overflow, in every build
checked_add(a, b) ==
  IF a + b > USIZE_MAX THEN [some |-> FALSE, val |-> 0]
                       ELSE [some |-> TRUE, val |-> a + b]

RECURSIVE BitAndN(_, _, _)
\* x & y over the low n bits
BitAndN(x, y, n) ==
  IF n = 0 THEN 0
  ELSE (x % 2) * (y % 2) + 2 * BitAndN(x \div 2, y \div 2, n - 1)

\* x & y
BitAnd(x, y) == BitAndN(x, y, USIZE_BITS)

\* !x
BitNot(x) == USIZE_MAX - x

----------------------------------------------------------------------------
(* src/allocator.rs: align_up *)

\* bug variant: the mask alone, which rounds down instead of up
align_up_rounds_down(addr, align) ==
  [panic |-> FALSE, val |-> BitAnd(addr, BitNot(align - 1))]

\* (addr + align - 1) & !(align - 1), evaluated left to right in usize
align_up(addr, align) ==
  LET sum == usize_add(addr, align)
      dec == usize_sub(sum.val, 1)
  IN IF sum.panic \/ dec.panic THEN Panicked
     ELSE [panic |-> FALSE, val |-> BitAnd(dec.val, BitNot(align - 1))]

\* the commented-out "verbose implementation" of align_up
align_up_verbose(addr, align) ==
  LET remainder == addr % align
  IN IF remainder = 0 THEN [panic |-> FALSE, val |-> addr]
     ELSE usize_add(usize_sub(addr, remainder).val, align)

----------------------------------------------------------------------------
(* src/memory.rs: BootInfoFrameAllocator over the boot loader's memory map *)

\* largest frame number a region of the drawn memory maps reaches
MaxFrame == 2
\* largest number of regions in a drawn memory map
MaxRegions == 2

\* the step of usable_frames and the size of a PhysFrame<Size4KiB>
PAGE_SIZE == 4096

\* calls of allocate_frame made on one map: enough to exhaust any drawn map
MaxCalls == MaxRegions * MaxFrame + 2

\* MemoryRegionType, as far as the allocator tells the tags apart
RegionTypes == {"Usable", "Reserved"}

\* a MemoryRegion: a FrameRange in frame numbers and its tag
Regions ==
  { [start_frame_number |-> a, end_frame_number |-> b, region_type |-> t] :
      a \in 0..MaxFrame, b \in 0..MaxFrame, t \in RegionTypes }

\* FrameRange::start_addr / end_addr
start_addr(r) == r.start_frame_number * PAGE_SIZE
end_addr(r) == r.end_frame_number * PAGE_SIZE

\* the memory maps the boot loader may pass: any regions, in any order
MemoryMaps ==
  UNION { [1..n -> {r \in Regions : r.start_frame_number <= r.end_frame_number}] :
          n \in 0..MaxRegions }

\* Option<PhysFrame>, a frame named by its start address
None == [some |-> FALSE, frame |-> 0]
Some(f) == [some |-> TRUE, frame |-> f]

\* bug variant: every region passes the filter
is_usable_any(r) == TRUE

\* the filter of usable_frames: r.region_type == MemoryRegionType::Usable
is_usable(r) == r.region_type = "Usable"

\* (start..end).step_by(4096), as the sequence of its items
step_by(start, end, step) ==
  IF start >= end THEN << >>
  ELSE [i \in 1..((end - start + step - 1) \div step) |-> start + (i - 1) * step]

\* PhysFrame::containing_address: the frame's start is addr aligned down
containing_address(addr) == addr - (addr % PAGE_SIZE)

\* flat_map over a sequence of sequences
RECURSIVE flatten(_)
flatten(ss) == IF ss = << >> THEN << >> ELSE Head(ss) \o flatten(Tail(ss))

\* BootInfoFrameAllocator::usable_frames, as the sequence the iterator yields
usable_frames(memory_map) ==
  LET usable_regions == SelectSeq(memory_map, is_usable)
      addr_ranges == [i \in 1..Len(usable_regions) |->
                        <<start_addr(usable_regions[i]), end_addr(usable_regions[i])>>]
      frame_addresses == flatten([i \in 1..Len(addr_ranges) |->
                                    step_by(addr_ranges[i][1], addr_ranges[i][2], PAGE_SIZE)])
  IN [i \in 1..Len(frame_addresses) |-> containing_address(frame_addresses[i])]

\* bug variant: past the end, the last item is yielded again
nth_clamped(s, n) ==
  IF s = << >> THEN None ELSE IF n < Len(s) THEN Some(s[n + 1]) ELSE Some(s[Len(s)])

\* Iterator::nth, counting from 0
nth(s, n) == IF n < Len(s) THEN Some(s[n + 1]) ELSE None

\* bug variant: the cursor is not advanced
allocate_frame_keeps_cursor(fa) ==
  [frame |-> nth(usable_frames(fa.memory_map), fa.next), fa |-> fa]

\* bug variant: the cursor is read after it is advanced
allocate_frame_skips_first(fa) ==
  [frame |-> nth(usable_frames(fa.memory_map), fa.next + 1),
   fa |-> [fa EXCEPT !.next = @ + 1]]

\* FrameAllocator::allocate_frame for BootInfoFrameAllocator
allocate_frame(fa) ==
  [frame |-> nth(usable_frames(fa.memory_map), fa.next),
   fa |-> [fa EXCEPT !.next = @ + 1]]

\* BootInfoFrameAllocator::init
frame_allocator_init(memory_map) == [memory_map |-> memory_map, next |-> 0]

\* the frame allocator over the map the boot loader passed
InitFrames(memory_maps) ==
  /\ boot_info \in { [memory_map |-> m] : m \in memory_maps }
  /\ frame_allocator = frame_allocator_init(boot_info.memory_map)
  /\ frames = << >>

\* a caller's frame_allocator.allocate_frame()
AllocateFrame ==
  /\ Len(frames) < MaxCalls
  /\ LET r == allocate_frame(frame_allocator)
     IN /\ frame_allocator' = r.fa
        /\ frames' = Append(frames, r.frame)
  /\ UNCHANGED <<boot_info, overflow_checks, bump_vars, kernel_vars>>

----------------------------------------------------------------------------
(* src/allocator/bump.rs: BumpAllocator behind Locked (a spin::Mutex).     *)
(* alloc and dealloc take the lock on entry and hold it to their end, so   *)
(* each call is one atomic step here.                                      *)

\* ptr::null_mut(), the failure sentinel of GlobalAlloc::alloc
null_mut == 0

\* alignments a Layout can carry: the powers of two of the width
Aligns == { 2^k : k \in 0..(USIZE_BITS - 1) }

\* request sizes: none, one byte, several bytes, and the largest usize value
Sizes == {0, 1, MaxSize, USIZE_MAX}

\* core::alloc::Layout's invariant: size rounded up to align does not overflow usize
LayoutValid(size, align) == align \in Aligns /\ size + (align - 1) <= USIZE_MAX

\* BumpAllocator::new
new == [heap_start |-> 0, heap_end |-> 0, next |-> 0, allocations |-> 0]

\* BumpAllocator::init
init(b, heap_start, heap_size) ==
  [b EXCEPT !.heap_start = heap_start,
            !.heap_end = heap_start + heap_size,
            !.next = heap_start]

\* bug variant: accepts a block that ends one byte past the heap
exceeds_heap_off_by_one(alloc_end, heap_end) == alloc_end > heap_end + 1

\* `if alloc_end > bump.heap_end`
exceeds_heap(alloc_end, heap_end) == alloc_end > heap_end

\* bug variant: the failure path still counts the allocation
alloc_fail_counts(b) ==
  [panic |-> FALSE, bump |-> [b EXCEPT !.allocations = @ + 1], ret |-> null_mut]

\* the two `ptr::null_mut()` returns of alloc: nothing is written
alloc_fail(b) == [panic |-> FALSE, bump |-> b, ret |-> null_mut]

\* bug variant: the block is handed out without being counted
alloc_commit_uncounted(b, alloc_start, alloc_end) ==
  [panic |-> FALSE, bump |-> [b EXCEPT !.next = alloc_end], ret |-> alloc_start]

\* bug variant: the allocation is counted twice
alloc_commit_counts_twice(b, alloc_start, alloc_end) ==
  [panic |-> FALSE,
   bump |-> [b EXCEPT !.next = alloc_end, !.allocations = @ + 2],
   ret |-> alloc_start]

\* the else branch of alloc: move next, count the allocation, return alloc_start
alloc_commit(b, alloc_start, alloc_end) ==
  LET inc == usize_add(b.allocations, 1)
  IN IF inc.panic THEN [panic |-> TRUE, bump |-> [b EXCEPT !.next = alloc_end], ret |-> null_mut]
     ELSE [panic |-> FALSE,
           bump |-> [b EXCEPT !.next = alloc_end, !.allocations = inc.val],
           ret |-> alloc_start]

\* GlobalAlloc::alloc for Locked<BumpAllocator>
alloc(b, size, align) ==
  LET alloc_start == align_up(b.next, align)
  IN IF alloc_start.panic THEN [panic |-> TRUE, bump |-> b, ret |-> null_mut]
     ELSE LET alloc_end == checked_add(alloc_start.val, size)
          IN IF ~alloc_end.some THEN alloc_fail(b)
             ELSE IF exceeds_heap(alloc_end.val, b.heap_end) THEN alloc_fail(b)
             ELSE alloc_commit(b, alloc_start.val, alloc_end.val)

\* bug variant: the cursor is reset on every release
dealloc_always_resets(b) ==
  [panic |-> FALSE,
   bump |-> [b EXCEPT !.allocations = @ - 1, !.next = b.heap_start]]

\* bug variant: the cursor is never reset
dealloc_never_resets(b) ==
  [panic |-> FALSE, bump |-> [b EXCEPT !.allocations = @ - 1]]

\* bug variant: every release gives the last byte below the cursor back
dealloc_steps_back(b) ==
  [panic |-> FALSE,
   bump |-> [b EXCEPT !.allocations = @ - 1,
                      !.next = IF b.allocations = 1 \/ @ = b.heap_start
                                 THEN b.heap_start ELSE @ - 1]]

\* GlobalAlloc::dealloc for Locked<BumpAllocator>; the pointer and layout are unused
dealloc(b) ==
  LET dec == usize_sub(b.allocations, 1)
  IN IF dec.panic THEN [panic |-> TRUE, bump |-> b]
     ELSE [panic |-> FALSE,
           bump |-> IF dec.val = 0
                      THEN [b EXCEPT !.allocations = dec.val, !.next = b.heap_start]
                      ELSE [b EXCEPT !.allocations = dec.val]]

\* the heap windows init is given: below the middle of the address space, as
\* the kernel's HEAP_START .. HEAP_START + HEAP_SIZE is, and not at address 0
HeapStarts == {2^(USIZE_BITS - 2) - 1, 2^(USIZE_BITS - 2)}
HeapSizes == {MaxHeapSize - 1, MaxHeapSize}
HeapWindowValid(heap_start, heap_size) ==
  heap_start + heap_size < 2^(USIZE_BITS - 1)

\* sequence s without its i-th element
RemoveAt(s, i) == SubSeq(s, 1, i - 1) \o SubSeq(s, i + 1, Len(s))

NoCall == [kind |-> "new", size |-> 0, align |-> 1, ret |-> null_mut,
           pre |-> new, after_null |-> FALSE]

\* whether the latest call was an alloc that returned the null sentinel
LastReturnedNull == last.kind = "alloc" /\ last.ret = null_mut

\* no call is under way
NoCalls == [lock |-> 0, order |-> << >>, start |-> new, of |-> << >>]

InitBump ==
  /\ bump = new
  /\ inited = FALSE
  /\ halted = FALSE
  /\ live = << >>
  /\ last = NoCall
  /\ locked = NoCalls

\* ALLOCATOR.lock().init(heap_start, heap_size), once
SeedAllocator(heap_start, heap_size) ==
  /\ ~halted /\ ~inited
  /\ HeapWindowValid(heap_start, heap_size)
  /\ bump' = init(bump, heap_start, heap_size)
  /\ inited' = TRUE
  /\ last' = [kind |-> "init", size |-> heap_size, align |-> 1, ret |-> null_mut,
              pre |-> bump, after_null |-> LastReturnedNull]
  /\ UNCHANGED <<halted, live, locked, overflow_checks, frame_vars, kernel_vars>>

\* a caller's ALLOCATOR.alloc(Layout(size, align))
Allocate(size, align) ==
  /\ ~halted
  /\ LayoutValid(size, align)
  /\ LET r == alloc(bump, size, align)
     IN /\ r.bump.allocations <= MaxLive    \* at most MaxLive blocks are requested
        /\ bump' = r.bump
        /\ halted' = r.panic
        /\ live' = IF ~r.panic /\ r.ret # null_mut
                     THEN Append(live, [addr |-> r.ret, size |-> size])
                     ELSE live
        /\ last' = [kind |-> IF r.panic THEN "panic" ELSE "alloc",
                    size |-> size, align |-> align, ret |-> r.ret,
                    pre |-> bump, after_null |-> LastReturnedNull]
  /\ UNCHANGED <<inited, locked, overflow_checks, frame_vars, kernel_vars>>

\* a caller's ALLOCATOR.dealloc(ptr, layout) of its i-th live block
Deallocate(i) ==
  /\ ~halted
  /\ i \in 1..Len(live)
  /\ LET r == dealloc(bump)
     IN /\ bump' = r.bump
        /\ halted' = r.panic
        /\ live' = IF r.panic THEN live ELSE RemoveAt(live, i)
        /\ last' = [kind |-> IF r.panic THEN "panic" ELSE "dealloc",
                    size |-> live[i].size, align |-> 1, ret |-> live[i].addr,
                    pre |-> bump, after_null |-> LastReturnedNull]
  /\ UNCHANGED <<inited, locked, overflow_checks, frame_vars, kernel_vars>>

----------------------------------------------------------------------------
(* src/allocator.rs: init_heap over a Mapper<Size4KiB> and the frame        *)
(* allocator.  The virtual address space is scaled with usize: a page is   *)
(* 2^PAGE_BITS bytes and a page table has 2^ENTRY_BITS entries.  The heap   *)
(* window keeps its shape: it starts on a page boundary, in the lower half *)
(* of the address space, and all its pages share one level-1 table.        *)

\* log2 of the size of a Size4KiB page in the scaled address space (12)
PAGE_BITS == 1
\* log2 of the number of entries of a page table in the scaled space (9)
ENTRY_BITS == 1

HEAP_START == 2^(USIZE_BITS - 2)
HEAP_SIZE == MaxHeapSize

PRESENT == "PRESENT"
WRITABLE == "WRITABLE"

\* Page::containing_address, a page named by its number
Page_containing_address(addr) == addr \div 2^PAGE_BITS

\* Page::range_inclusive, as the sequence the iterator yields
range_inclusive(start, end) == [i \in 1..(end - start + 1) |-> start + i - 1]

\* let page_range = { ... }
page_range ==
  LET heap_start == HEAP_START
      heap_end == heap_start + HEAP_SIZE - 1
      heap_start_page == Page_containing_address(heap_start)
      heap_end_page == Page_containing_address(heap_end)
  IN range_inclusive(heap_start_page, heap_end_page)

\* the table of level l (3, 2, 1) on the walk from the root to page
table_of(page, l) == [level |-> l, index |-> page \div (2^(ENTRY_BITS * l))]

has_table(m, t) == \E e \in m.tables : e.level = t.level /\ e.index = t.index

\* create_tables once the frame for the missing table of level l was asked for
RECURSIVE create_tables(_, _, _, _)
create_table_in(m, a, page, l) ==
  IF ~a.frame.some
    THEN [ok |-> FALSE, mapper |-> m, fa |-> a.fa, calls |-> <<a.frame>>]
    ELSE [create_tables([m EXCEPT !.tables = @ \cup
                           {[level |-> l, index |-> table_of(page, l).index,
                             frame |-> a.frame.frame]}],
                        a.fa, page, l - 1)
          EXCEPT !.calls = <<a.frame>> \o @]

\* the walk of map_to from level l down: a missing table takes a frame from
\* the frame allocator; without a frame the walk stops and what it has
\* installed stays
create_tables(m, fa, page, l) ==
  IF l = 0 THEN [ok |-> TRUE, mapper |-> m, fa |-> fa, calls |-> << >>]
  ELSE IF has_table(m, table_of(page, l)) THEN create_tables(m, fa, page, l - 1)
  ELSE create_table_in(m, allocate_frame(fa), page, l)

\* map_to once the walk t to the level-1 table is done
set_entry(t, page, frame, flags) ==
  IF ~t.ok
    THEN [ok |-> FALSE, err |-> "FrameAllocationFailed", mapper |-> t.mapper,
          fa |-> t.fa, calls |-> t.calls]
    ELSE [ok |-> TRUE, err |-> "",
          mapper |-> [t.mapper EXCEPT
                        !.entries = {e \in @ : e.page # page} \cup
                                    {[page |-> page, frame |-> frame, flags |-> flags]}],
          fa |-> t.fa, calls |-> t.calls]

\* Mapper::map_to(page, frame, flags, frame_allocator)
map_to(m, page, frame, flags, fa) ==
  set_entry(create_tables(m, fa, page, 3), page, frame, flags)

\* what the loop returns when it leaves at page with error err
loop_failed(err, page, m, fa, calls) ==
  [ok |-> FALSE, err |-> err, page |-> page, mapper |-> m, fa |-> fa, calls |-> calls]

\* what the loop returns when it has run through
loop_done(m, fa) ==
  [ok |-> TRUE, err |-> "", page |-> 0, mapper |-> m, fa |-> fa, calls |-> << >>]

RECURSIVE map_pages(_, _, _)
\* the loop body after map_to returned r for Head(pages): `?`, then .flush()
page_mapped(pages, a, r) ==
  IF ~r.ok
    THEN loop_failed(r.err, Head(pages), r.mapper, r.fa, <<a.frame>> \o r.calls)
    ELSE [map_pages(Tail(pages), r.mapper, r.fa)
          EXCEPT !.calls = <<a.frame>> \o r.calls \o @]

\* bug variant: every page is mapped to the frame taken for the first page
frame_allocated_first_frame(pages, m, a) ==
  IF ~a.frame.some
    THEN loop_failed("FrameAllocationFailed", Head(pages), m, a.fa, <<a.frame>>)
    ELSE page_mapped(pages, a,
                     map_to(m, Head(pages),
                            IF m.entries = {} THEN a.frame.frame
                            ELSE (CHOOSE e \in m.entries : TRUE).frame,
                            {PRESENT, WRITABLE}, a.fa))

\* the loop body after allocate_frame returned a for Head(pages):
\* .ok_or(MapToError::FrameAllocationFailed)?, then map_to
frame_allocated(pages, m, a) ==
  IF ~a.frame.some
    THEN loop_failed("FrameAllocationFailed", Head(pages), m, a.fa, <<a.frame>>)
    ELSE page_mapped(pages, a,
                     map_to(m, Head(pages), a.frame.frame, {PRESENT, WRITABLE}, a.fa))

\* for page in page_range { ... }: the first failure is returned at once
map_pages(pages, m, fa) ==
  IF pages = << >> THEN loop_done(m, fa)
  ELSE frame_allocated(pages, m, allocate_frame(fa))

\* bug variant: the window is seeded one byte short
seed_allocator_short(b) == init(b, HEAP_START, HEAP_SIZE - 1)

\* ALLOCATOR.lock().init(HEAP_START, HEAP_SIZE)
seed_allocator(b) == init(b, HEAP_START, HEAP_SIZE)

\* bug variant: the allocator is seeded whatever the loop returned
returned_seeds_always(r, b) ==
  [ok |-> r.ok, err |-> r.err, page |-> r.page, mapper |-> r.mapper,
   fa |-> r.fa, calls |-> r.calls, bump |-> seed_allocator(b)]

\* init_heap after the loop returned r: the allocator is seeded on Ok only
returned(r, b) ==
  [ok |-> r.ok, err |-> r.err, page |-> r.page, mapper |-> r.mapper,
   fa |-> r.fa, calls |-> r.calls,
   bump |-> IF r.ok THEN seed_allocator(b) ELSE b]

\* init_heap(mapper, frame_allocator)
init_heap(m, fa, b) == returned(map_pages(page_range, m, fa), b)

\* the frame of a table the boot loader built
BootFrame(l) == (MaxFrame + 1 + l) * PAGE_SIZE

\* the page tables at handoff: the heap window is unmapped, and of the
\* tables on the walk to it the boot loader has built the upper d levels
BootTables(d) ==
  { [level |-> l, index |-> table_of(Page_containing_address(HEAP_START), l).index,
     frame |-> BootFrame(l)] : l \in (4 - d)..3 }

NotCalled == [called |-> FALSE, ok |-> FALSE, err |-> "", page |-> 0]

\* the mapper and init_heap before any call
InitHeapIdle ==
  /\ mapper = [tables |-> {}, entries |-> {}]
  /\ heap_init = NotCalled

\* the state after init_heap returned r
InitHeapReturned(r) ==
  /\ mapper' = r.mapper
  /\ frame_allocator' = r.fa
  /\ frames' = frames \o r.calls
  /\ bump' = r.bump
  /\ inited' = r.ok
  /\ heap_init' = [called |-> TRUE, ok |-> r.ok, err |-> r.err, page |-> r.page]
  /\ last' = IF r.ok
               THEN [kind |-> "init", size |-> HEAP_SIZE, align |-> 1,
                     ret |-> null_mut, pre |-> bump, after_null |-> FALSE]
               ELSE last

\* a caller's init_heap(&mut mapper, &mut frame_allocator)
InitHeap ==
  /\ ~halted /\ ~inited /\ ~heap_init.called
  /\ InitHeapReturned(init_heap(mapper, frame_allocator, bump))
  /\ UNCHANGED <<halted, live, locked, boot_info, overflow_checks, vga_vars, machine_vars>>

----------------------------------------------------------------------------
(* src/vga_buffer.rs: the display Writer behind WRITER (a spin::Mutex).    *)
(* The screen is scaled: BUFFER_HEIGHT rows of BUFFER_WIDTH columns.       *)

\* columns of the screen (80 in the kernel)
BUFFER_WIDTH == 3
\* rows of the screen (25 in the kernel)
BUFFER_HEIGHT == 3
\* calls of print, println and clear_screen made on one screen
MaxPrints == 2

\* ColorCode::new(Color::Yellow, Color::Black): (background << 4) | foreground
Yellow_on_Black == 0 * 16 + 14

NEWLINE == 10
SPACE == 32
UNPRINTABLE == 254

ScreenChar(byte, color) == [ascii_character |-> byte, color_code |-> color]

\* Writer::clear_row
clear_row(w, row) ==
  [w EXCEPT !.chars[row] =
     [col \in 0..(BUFFER_WIDTH - 1) |-> ScreenChar(SPACE, w.color_code)]]

\* the copy loop of new_line, rows from..BUFFER_HEIGHT - 1 in ascending order
RECURSIVE copy_rows_up(_, _)
copy_rows_up(chars, row) ==
  IF row >= BUFFER_HEIGHT THEN chars
  ELSE copy_rows_up([chars EXCEPT ![row - 1] = chars[row]], row + 1)

\* bug variant: the rows are not moved up
new_line_no_scroll(w) ==
  [clear_row(w, BUFFER_HEIGHT - 1) EXCEPT !.column_position = 0]

\* Writer::new_line
new_line(w) ==
  [clear_row([w EXCEPT !.chars = copy_rows_up(@, 1)], BUFFER_HEIGHT - 1)
   EXCEPT !.column_position = 0]

\* write_byte once the column is known to be on the row, or made so
put_byte(w, byte) ==
  IF w.column_position >= BUFFER_WIDTH
    THEN [w EXCEPT !.panicked = TRUE]     \* index out of bounds
    ELSE [w EXCEPT !.chars[BUFFER_HEIGHT - 1][w.column_position] =
                      ScreenChar(byte, w.color_code),
                   !.column_position = @ + 1]

\* bug variant: the row is taken as full one column late
write_byte_wraps_late(w, byte) ==
  IF byte = NEWLINE THEN new_line(w)
  ELSE IF w.column_position > BUFFER_WIDTH THEN put_byte(new_line(w), byte)
  ELSE put_byte(w, byte)

\* Writer::write_byte
write_byte(w, byte) ==
  IF byte = NEWLINE THEN new_line(w)
  ELSE IF w.column_position >= BUFFER_WIDTH THEN put_byte(new_line(w), byte)
  ELSE put_byte(w, byte)

\* the match of write_string: printable ASCII and newline as they are, any
\* other byte as 0xfe
write_string_byte(w, byte) ==
  write_byte(w, IF byte \in 32..126 \/ byte = NEWLINE THEN byte ELSE UNPRINTABLE)

\* Writer::write_string; the writer x that the bytes written so far left is
\* computed once for each byte
RECURSIVE write_string(_, _)
write_string(w, s) ==
  IF s = << >> THEN w
  ELSE CHOOSE r \in { IF x.panicked THEN x
                       ELSE write_string(write_string_byte(x, Head(s)), Tail(s)) :
                       x \in {w} } : TRUE

\* Writer::clear_screen, rows from row on
RECURSIVE clear_rows(_, _)
clear_rows(w, row) ==
  IF row >= BUFFER_HEIGHT THEN w ELSE clear_rows(clear_row(w, row), row + 1)

clear_screen(w) == clear_rows(w, 0)

\* print!(s): _print, WRITER.lock().write_fmt(args)
_print(w, s) == write_string(w, s)

\* println!(s): print!("{}\n", s)
println(w, s) == _print(w, s \o <<NEWLINE>>)

\* n times the letter A
RECURSIVE Letters(_)
Letters(n) == IF n = 0 THEN << >> ELSE <<65>> \o Letters(n - 1)

\* the strings printed: runs of a letter up to one more than a row holds,
\* also ended by a newline or by a byte that is not printable
Strings ==
  { Letters(n) : n \in 0..(BUFFER_WIDTH + 1) } \cup
  { Letters(n) \o <<c>> : n \in 0..BUFFER_WIDTH, c \in {NEWLINE, 200} }

\* the text buffer at 0xb8000 as the boot left it: blank, or full of text
ScreenContents ==
  { [row \in 0..(BUFFER_HEIGHT - 1) |->
       [col \in 0..(BUFFER_WIDTH - 1) |-> ScreenChar(c, 7)]] : c \in {SPACE, 88} }

\* the lazily built WRITER over a screen
WRITER(chars) ==
  [column_position |-> 0, color_code |-> Yellow_on_Black, chars |-> chars,
   panicked |-> FALSE]

\* the display before any print: WRITER over the screen as left
InitVga(contents) ==
  /\ writer \in { WRITER(chars) : chars \in contents }
  /\ prints = << >>

\* the display untouched, its screen blank
InitVgaIdle ==
  InitVga({ [row \in 0..(BUFFER_HEIGHT - 1) |->
               [col \in 0..(BUFFER_WIDTH - 1) |-> ScreenChar(SPACE, 7)]] })

Printed(op, s) == [op |-> op, s |-> s, pre |-> writer]

\* a caller's print!(s)
CallPrint(s) ==
  /\ Len(prints) < MaxPrints /\ ~writer.panicked
  /\ writer' = _print(writer, s)
  /\ prints' = Append(prints, Printed("print", s))
  /\ UNCHANGED <<overflow_checks, bump_vars, frame_vars, heap_vars, machine_vars>>

\* a caller's println!(s)
CallPrintln(s) ==
  /\ Len(prints) < MaxPrints /\ ~writer.panicked
  /\ writer' = println(writer, s)
  /\ prints' = Append(prints, Printed("println", s))
  /\ UNCHANGED <<overflow_checks, bump_vars, frame_vars, heap_vars, machine_vars>>

\* a caller's clear_screen!()
CallClearScreen ==
  /\ Len(prints) < MaxPrints /\ ~writer.panicked
  /\ writer' = clear_screen(writer)
  /\ prints' = Append(prints, Printed("clear_screen", << >>))
  /\ UNCHANGED <<overflow_checks, bump_vars, frame_vars, heap_vars, machine_vars>>

----------------------------------------------------------------------------
(* src/gdt.rs, src/interrupts.rs, src/lib.rs, src/main.rs: the descriptor  *)
(* tables, the interrupt handlers and the boot sequence.  The CPU runs the *)
(* context on top of `stack`: kernel_main at the bottom, above it the      *)
(* handlers entered and not yet left.  Code is a sequence of operations;   *)
(* a spin::Mutex is taken by an operation that can run only once the lock  *)
(* is free.                                                                *)

\* interrupts and exceptions delivered in one run
MaxInterrupts == 2

\* gdt.rs
DOUBLE_FAULT_IST_INDEX == 0
STACK_SIZE == 20480

\* interrupts.rs: InterruptIndex
PIC_1_OFFSET == 32
Timer == PIC_1_OFFSET
Keyboard == PIC_1_OFFSET + 1

\* the exception vectors of the CPU that the kernel meets
BREAKPOINT_VECTOR == 3
DOUBLE_FAULT_VECTOR == 8
GENERAL_PROTECTION_VECTOR == 13
PAGE_FAULT_VECTOR == 14
Vectors == {BREAKPOINT_VECTOR, DOUBLE_FAULT_VECTOR, GENERAL_PROTECTION_VECTOR,
            PAGE_FAULT_VECTOR, Timer, Keyboard}

\* a SegmentSelector; NoSelector: the register was not loaded
Selector(index) == [index |-> index, rpl |-> 0]
NoSelector == [index |-> 0 - 1, rpl |-> 0]

\* the addresses the linker may give the static STACK
StackAddresses == {4096 * 16, 4096 * 32}

\* TaskStateSegment::new(): every stack pointer 0
TaskStateSegment_new == [interrupt_stack_table |-> [i \in 0..6 |-> 0]]

\* static ref TSS: stack_end = stack_start + STACK_SIZE goes to entry 0
TSS_build(stack_start) ==
  [TaskStateSegment_new EXCEPT
     !.interrupt_stack_table[DOUBLE_FAULT_IST_INDEX] = stack_start + STACK_SIZE]

\* Descriptor::kernel_code_segment() and Descriptor::tss_segment(&TSS): the
\* table entries each takes
kernel_code_segment == <<[kind |-> "code", tss |-> TaskStateSegment_new]>>
tss_segment(tss) == <<[kind |-> "tss", tss |-> tss],
                      [kind |-> "tss_high", tss |-> tss]>>

\* GlobalDescriptorTable::new(): entry 0 is the null descriptor
GlobalDescriptorTable_new == <<[kind |-> "null", tss |-> TaskStateSegment_new]>>

\* GlobalDescriptorTable::add_entry: the entries go to the end of the table,
\* the selector names the first of them (indices count from 0)
add_entry(table, entries) ==
  [table |-> table \o entries, selector |-> Selector(Len(table))]

\* the first add_entry of GDT, and the second for the TSS tss
GDT_code == add_entry(GlobalDescriptorTable_new, kernel_code_segment)
GDT_tss(tss) == add_entry(GDT_code.table, tss_segment(tss))

\* static ref GDT: (GlobalDescriptorTable, Selectors)
GDT_build(tss) ==
  [table |-> GDT_tss(tss).table, code_selector |-> GDT_code.selector,
   tss_selector |-> GDT_tss(tss).selector]

\* an IDT entry; ist 0: the handler runs on the interrupted stack
NoHandler == [present |-> FALSE, handler |-> "", ist |-> 0]

\* Entry::set_handler_fn
set_handler_fn(handler) == [present |-> TRUE, handler |-> handler, ist |-> 0]

\* EntryOptions::set_stack_index: the hardware counts the stacks from 1
set_stack_index(entry, index) == [entry EXCEPT !.ist = index + 1]

\* InterruptDescriptorTable::new()
InterruptDescriptorTable_new == [v \in Vectors |-> NoHandler]

\* static ref IDT
IDT_build ==
  [InterruptDescriptorTable_new EXCEPT
     ![BREAKPOINT_VECTOR] = set_handler_fn("breakpoint_handler"),
     ![DOUBLE_FAULT_VECTOR] =
        set_stack_index(set_handler_fn("double_fault_handler"), DOUBLE_FAULT_IST_INDEX),
     ![Timer] = set_handler_fn("timer_interrupt_handler"),
     ![Keyboard] = set_handler_fn("keyboard_interrupt_handler")]

\* the lazy statics before their first use
Unbuilt(stack_start) ==
  [STACK |-> stack_start,
   TSS |-> [built |-> FALSE, value |-> TaskStateSegment_new],
   GDT |-> [built |-> FALSE,
            value |-> [table |-> << >>, code_selector |-> NoSelector,
                       tss_selector |-> NoSelector]],
   IDT |-> [built |-> FALSE, value |-> InterruptDescriptorTable_new]]

\* first use of TSS, of GDT (which uses TSS) and of IDT: built once
force_TSS(st) ==
  IF st.TSS.built THEN st
  ELSE [st EXCEPT !.TSS = [built |-> TRUE, value |-> TSS_build(st.STACK)]]

force_GDT(st) ==
  IF st.GDT.built THEN st
  ELSE [force_TSS(st) EXCEPT
          !.GDT = [built |-> TRUE, value |-> GDT_build(force_TSS(st).TSS.value)]]

force_IDT(st) ==
  IF st.IDT.built THEN st
  ELSE [st EXCEPT !.IDT = [built |-> TRUE, value |-> IDT_build]]

\* the texts printed
TextHello == <<72, 101, 108, 108, 111, 32, 87, 111, 114, 108, 100, 33, 10>>
TextDot == <<46>>
TextDidntCrash == <<68, 105, 100, 110, 39, 116, 32, 99, 114, 97, 115, 104, 33, 10>>
\* "EXCEPTION: BREAKPOINT\n"; the dump of the stack frame that follows it is
\* left out
TextBreakpoint == <<69, 88, 67, 69, 80, 84, 73, 79, 78, 58, 32, 66, 82, 69, 65,
                    75, 80, 79, 73, 78, 84, 10>>
\* the panic message "EXCEPTION: DOUBLE FAULT\n", likewise
TextDoubleFault == <<69, 88, 67, 69, 80, 84, 73, 79, 78, 58, 32, 68, 79, 85, 66,
                     76, 69, 32, 70, 65, 85, 76, 84, 10>>

Op(op, arg) == [op |-> op, arg |-> arg, text |-> << >>]
WriteOp(text) == [op |-> "write_fmt", arg |-> "WRITER", text |-> text]

\* _print: WRITER.lock().write_fmt(args).unwrap(); the guard is dropped at
\* the end of the statement
print_ops(text) ==
  <<Op("lock", "WRITER"), WriteOp(text), Op("unlock", "WRITER")>>

\* bug variant: the task register is loaded first
gdt_init_tss_first ==
  <<Op("load_tss", "GDT.1.tss_selector"), Op("GDT.load", "GDT.0"),
    Op("set_cs", "GDT.1.code_selector")>>

\* gdt::init
gdt_init ==
  <<Op("GDT.load", "GDT.0"), Op("set_cs", "GDT.1.code_selector"),
    Op("load_tss", "GDT.1.tss_selector")>>

\* interrupts::init_idt
init_idt == <<Op("IDT.load", "IDT")>>

\* bug variant: the IDT is loaded before the GDT and the TSS
lib_init_idt_first == init_idt \o gdt_init

\* cloudos::init
lib_init == gdt_init \o init_idt

\* cloudos::hlt_loop: never returns
hlt_loop == <<Op("hlt_loop", "")>>

\* kernel_main of the build that is not the test build
kernel_main ==
  print_ops(TextHello) \o
  lib_init \o
  <<Op("memory::init", "mapper"),
    Op("BootInfoFrameAllocator::init", "frame_allocator"),
    Op("write_volatile", "page 0")>> \o
  print_ops(TextDidntCrash) \o
  hlt_loop

\* bug variant: the writer lock is not released
breakpoint_handler_keeps_lock ==
  <<Op("lock", "WRITER"), WriteOp(TextBreakpoint), Op("iretq", "")>>

\* breakpoint_handler
breakpoint_handler == print_ops(TextBreakpoint) \o <<Op("iretq", "")>>

\* double_fault_handler: panic!, and with it the panic handler of main.rs
double_fault_handler == print_ops(TextDoubleFault) \o hlt_loop

\* PICS.lock().notify_end_of_interrupt(vector)
notify_ops(vector) ==
  <<Op("lock", "PICS"), Op("notify_end_of_interrupt", vector), Op("unlock", "PICS")>>

\* timer_interrupt_handler
timer_interrupt_handler ==
  print_ops(TextDot) \o notify_ops(Timer) \o <<Op("iretq", "")>>

\* what add_byte and process_keyevent make of the scancode read
KeyOutcomes == {"Err", "Ok(None)", "None", "Unicode", "RawKey"}

\* bug variant: whatever the decoder made of the byte is printed
key_ops_prints_all(key) == print_ops(<<97>>)

\* the body of the `if let`s for the outcome key
key_ops(key) ==
  IF key = "Unicode" THEN print_ops(<<97>>)          \* the character 'a'
  ELSE IF key = "RawKey" THEN print_ops(<<70, 49>>)   \* the Debug text "F1"
  ELSE << >>

\* keyboard_interrupt_handler; the KEYBOARD guard lives to the end of the
\* function
keyboard_interrupt_handler(key) ==
  <<Op("lock", "KEYBOARD"), Op("port.read", key)>> \o
  key_ops(key) \o
  notify_ops(Keyboard) \o
  <<Op("unlock", "KEYBOARD"), Op("iretq", "")>>

\* the code a context runs
Program(f) ==
  CASE f.code = "kernel_main" -> kernel_main
    [] f.code = "breakpoint_handler" -> breakpoint_handler
    [] f.code = "double_fault_handler" -> double_fault_handler
    [] f.code = "timer_interrupt_handler" -> timer_interrupt_handler
    [] f.code = "keyboard_interrupt_handler" -> keyboard_interrupt_handler(f.key)

\* no vector: the context was not entered through the IDT
NoVector == 0 - 1

\* the stack the boot loader set up for kernel_main, and the value of a stack
\* pointer that was read from no TSS of the kernel
BOOT_STACK == 32768
UNDEFINED_STACK == 0 - 1

\* a context on the CPU: its code, the next operation (pc), the outcome of the
\* key decoder (keyboard handler), the vector it was entered through, its
\* stack, the interrupt flag and the position it returns to, and the
\* operations it has executed
Context(code, key, vector, rsp, saved_if, ret_pc) ==
  [code |-> code, pc |-> 1, key |-> key, vector |-> vector, rsp |-> rsp,
   saved_if |-> saved_if, ret_pc |-> ret_pc, events |-> << >>]

\* the latest handler that returned
NoRun == [code |-> "", vector |-> NoVector, key |-> "None", events |-> << >>, held |-> {},
          ret_pc |-> 0, resumed_pc |-> 0, depth |-> 0]

Locks == {"WRITER", "PICS", "KEYBOARD"}

\* the machine at handoff: no table of the kernel loaded, kernel_main about
\* to run on the boot stack
InitMachine(flags, stack_starts) ==
  /\ cpu \in { [gdtr |-> << >>, cs |-> NoSelector, tr |-> NoSelector,
                idtr |-> [loaded |-> FALSE, table |-> InterruptDescriptorTable_new],
                interrupts_enabled |-> f] : f \in flags }
  /\ statics \in { Unbuilt(a) : a \in stack_starts }
  /\ stack = <<Context("kernel_main", "None", NoVector, BOOT_STACK, cpu.interrupts_enabled, 0)>>
  /\ locks = [l \in Locks |-> 0]
  /\ in_service = {}
  /\ machine = [state |-> "running", fault |-> NoVector]
  /\ last_run = NoRun
  /\ delivered = 0

\* the machine left alone
InitMachineIdle == InitMachine({FALSE}, {4096 * 16})

\* the context the CPU runs and its next operation
top == stack[Len(stack)]
Running == machine.state = "running" /\ top.pc <= Len(Program(top))
NextOp == Program(top)[top.pc]

\* the stack once the running context has executed op
advance(stk, op) ==
  [stk EXCEPT ![Len(stk)].pc = @ + 1,
              ![Len(stk)].events = Append(@, [op |-> op.op, arg |-> op.arg])]

\* the operations kernel_main has executed
trace == stack[1].events

\* whether selector sel names a TSS descriptor of the loaded table
selects_tss(c, sel) ==
  /\ sel.index + 1 \in 1..Len(c.gdtr)
  /\ c.gdtr[sel.index + 1].kind = "tss"

\* the stack pointer the CPU reads for interrupt stack ist (counted from 1)
\* from the TSS the task register names
ist_stack(c, ist) ==
  IF selects_tss(c, c.tr)
    THEN c.gdtr[c.tr.index + 1].tss.interrupt_stack_table[ist - 1]
    ELSE UNDEFINED_STACK

\* the gate of vector v; without an IDT of the kernel there is none
gate(c, v) == IF c.idtr.loaded THEN c.idtr.table[v] ELSE NoHandler

\* the handler of gate g entered for vector v, on the interrupted stack or
\* on the interrupt stack the gate names
enter(c, stk, g, v, key, ret_pc) ==
  [reset |-> FALSE, vector |-> v,
   stack |-> Append(stk, Context(g.handler, key, v,
                                 IF g.ist = 0 THEN stk[Len(stk)].rsp
                                 ELSE ist_stack(c, g.ist),
                                 c.interrupts_enabled, ret_pc))]

\* the CPU delivering vector v: its handler; without one a double fault;
\* without a handler for that a triple fault, which resets the machine
dispatch(c, stk, v, key, ret_pc) ==
  IF gate(c, v).present THEN enter(c, stk, gate(c, v), v, key, ret_pc)
  ELSE IF v # DOUBLE_FAULT_VECTOR /\ gate(c, DOUBLE_FAULT_VECTOR).present
    THEN enter(c, stk, gate(c, DOUBLE_FAULT_VECTOR), DOUBLE_FAULT_VECTOR, "None", ret_pc)
  ELSE [reset |-> TRUE, stack |-> stk, vector |-> v]

\* the state after the delivery r; every gate of the IDT is an interrupt
\* gate, the handler runs with interrupts disabled
Dispatched(r, c) ==
  /\ machine' = IF r.reset THEN [state |-> "reset", fault |-> r.vector] ELSE machine
  /\ stack' = r.stack
  /\ cpu' = [c EXCEPT !.interrupts_enabled = IF r.reset THEN @ ELSE FALSE]

\* spin::Mutex::lock: returns once the lock is free
Lock(l) ==
  /\ Running /\ NextOp.op = "lock" /\ NextOp.arg = l
  /\ locks[l] = 0
  /\ locks' = [locks EXCEPT ![l] = Len(stack)]
  /\ stack' = advance(stack, NextOp)
  /\ UNCHANGED <<overflow_checks, bump_vars, frame_vars, heap_vars, vga_vars, cpu,
                 statics, in_service, machine, last_run, delivered>>

\* the MutexGuard dropped
Unlock(l) ==
  /\ Running /\ NextOp.op = "unlock" /\ NextOp.arg = l
  /\ locks' = [locks EXCEPT ![l] = 0]
  /\ stack' = advance(stack, NextOp)
  /\ UNCHANGED <<overflow_checks, bump_vars, frame_vars, heap_vars, vga_vars, cpu,
                 statics, in_service, machine, last_run, delivered>>

\* write_fmt on the locked Writer
WriteFmt ==
  /\ Running /\ NextOp.op = "write_fmt"
  /\ writer' = write_string(writer, NextOp.text)
  /\ stack' = advance(stack, NextOp)
  /\ UNCHANGED <<overflow_checks, bump_vars, frame_vars, heap_vars, prints, cpu,
                 statics, locks, in_service, machine, last_run, delivered>>

\* GDT.0.load()
LoadGdt ==
  /\ Running /\ NextOp.op = "GDT.load"
  /\ statics' = force_GDT(statics)
  /\ cpu' = [cpu EXCEPT !.gdtr = statics'.GDT.value.table]
  /\ stack' = advance(stack, NextOp)
  /\ UNCHANGED <<overflow_checks, bump_vars, frame_vars, heap_vars, vga_vars,
                 locks, in_service, machine, last_run, delivered>>

\* set_cs(GDT.1.code_selector)
SetCs ==
  /\ Running /\ NextOp.op = "set_cs"
  /\ statics' = force_GDT(statics)
  /\ cpu' = [cpu EXCEPT !.cs = statics'.GDT.value.code_selector]
  /\ stack' = advance(stack, NextOp)
  /\ UNCHANGED <<overflow_checks, bump_vars, frame_vars, heap_vars, vga_vars,
                 locks, in_service, machine, last_run, delivered>>

\* load_tss(GDT.1.tss_selector); a selector that names no TSS descriptor of
\* the loaded table raises a general protection fault
LoadTss ==
  /\ Running /\ NextOp.op = "load_tss"
  /\ statics' = force_GDT(statics)
  /\ IF selects_tss(cpu, statics'.GDT.value.tss_selector)
       THEN /\ cpu' = [cpu EXCEPT !.tr = statics'.GDT.value.tss_selector]
            /\ stack' = advance(stack, NextOp)
            /\ UNCHANGED machine
       ELSE Dispatched(dispatch(cpu, stack, GENERAL_PROTECTION_VECTOR, "None", top.pc), cpu)
  /\ UNCHANGED <<overflow_checks, bump_vars, frame_vars, heap_vars, vga_vars,
                 locks, in_service, last_run, delivered>>

\* IDT.load()
LoadIdt ==
  /\ Running /\ NextOp.op = "IDT.load"
  /\ statics' = force_IDT(statics)
  /\ cpu' = [cpu EXCEPT !.idtr = [loaded |-> TRUE, table |-> statics'.IDT.value]]
  /\ stack' = advance(stack, NextOp)
  /\ UNCHANGED <<overflow_checks, bump_vars, frame_vars, heap_vars, vga_vars,
                 locks, in_service, machine, last_run, delivered>>

\* memory::init(phys_mem_offset): the mapper over the active table
MemoryInit ==
  /\ Running /\ NextOp.op = "memory::init"
  /\ stack' = advance(stack, NextOp)
  /\ UNCHANGED <<overflow_checks, bump_vars, frame_vars, heap_vars, vga_vars, cpu,
                 statics, locks, in_service, machine, last_run, delivered>>

\* BootInfoFrameAllocator::init(&boot_info.memory_map)
FrameAllocatorInit ==
  /\ Running /\ NextOp.op = "BootInfoFrameAllocator::init"
  /\ frame_allocator' = frame_allocator_init(boot_info.memory_map)
  /\ stack' = advance(stack, NextOp)
  /\ UNCHANGED <<overflow_checks, bump_vars, boot_info, frames, heap_vars, vga_vars,
                 cpu, statics, locks, in_service, machine, last_run, delivered>>

\* page_ptr.offset(400).write_volatile(..) into page 0: a page fault unless
\* the boot loader mapped the page
PageWrite ==
  /\ Running /\ NextOp.op = "write_volatile"
  /\ IF \E e \in mapper.entries : e.page = 0
       THEN /\ stack' = advance(stack, NextOp)
            /\ UNCHANGED <<cpu, machine>>
       ELSE Dispatched(dispatch(cpu, stack, PAGE_FAULT_VECTOR, "None", top.pc), cpu)
  /\ UNCHANGED <<overflow_checks, bump_vars, frame_vars, heap_vars, vga_vars,
                 statics, locks, in_service, last_run, delivered>>

\* port.read() of the scancode and its decoding
ReadScancode ==
  /\ Running /\ NextOp.op = "port.read"
  /\ stack' = advance(stack, NextOp)
  /\ UNCHANGED <<overflow_checks, bump_vars, frame_vars, heap_vars, vga_vars, cpu,
                 statics, locks, in_service, machine, last_run, delivered>>

\* notify_end_of_interrupt(vector) on the locked controller
NotifyEndOfInterrupt ==
  /\ Running /\ NextOp.op = "notify_end_of_interrupt"
  /\ in_service' = in_service \ {NextOp.arg}
  /\ stack' = advance(stack, NextOp)
  /\ UNCHANGED <<overflow_checks, bump_vars, frame_vars, heap_vars, vga_vars, cpu,
                 statics, locks, machine, last_run, delivered>>

\* the run that ends when the running handler h returns into stack below
returned_run(h, below, lk, depth) ==
  [code |-> h.code, vector |-> h.vector, key |-> h.key, events |-> h.events,
   held |-> {l \in Locks : lk[l] = depth}, ret_pc |-> h.ret_pc,
   resumed_pc |-> below[Len(below)].pc, depth |-> depth]

\* iretq: the interrupted context continues where the stack frame says
resume(stk) ==
  [SubSeq(stk, 1, Len(stk) - 1) EXCEPT
     ![Len(stk) - 1].pc = stk[Len(stk)].ret_pc]

\* the return of a handler
Iret ==
  /\ Running /\ NextOp.op = "iretq"
  /\ stack' = resume(stack)
  /\ cpu' = [cpu EXCEPT !.interrupts_enabled = top.saved_if]
  /\ last_run' = returned_run(top, stack', locks, Len(stack))
  /\ UNCHANGED <<overflow_checks, bump_vars, frame_vars, heap_vars, vga_vars,
                 statics, locks, in_service, machine, delivered>>

\* the CPU executing the next operation of the running context
Execute ==
  \/ \E l \in Locks : Lock(l)
  \/ \E l \in Locks : Unlock(l)
  \/ WriteFmt
  \/ LoadGdt
  \/ SetCs
  \/ LoadTss
  \/ LoadIdt
  \/ MemoryInit
  \/ FrameAllocatorInit
  \/ PageWrite
  \/ ReadScancode
  \/ NotifyEndOfInterrupt
  \/ Iret

\* the interrupt controller raising line v while the CPU accepts interrupts,
\* the decoder making key of the scancode; a line is not raised again before
\* its end-of-interrupt
Interrupt(v, key) ==
  /\ machine.state = "running"
  /\ key \in (IF v = Keyboard THEN KeyOutcomes ELSE {"None"})
  /\ cpu.interrupts_enabled
  /\ delivered < MaxInterrupts
  /\ v \notin in_service
  /\ in_service' = in_service \cup {v}
  /\ delivered' = delivered + 1
  /\ Dispatched(dispatch(cpu, stack, v, key, top.pc), cpu)
  /\ UNCHANGED <<overflow_checks, bump_vars, frame_vars, heap_vars, vga_vars,
                 statics, locks, last_run>>

\* x86_64::instructions::interrupts::int3() as a statement of the kernel's
\* body after init
Int3 ==
  /\ machine.state = "running"
  /\ Len(stack) = 1
  /\ \E i \in 1..Len(trace) : trace[i].op = "IDT.load"
  /\ locks["WRITER"] = 0
  /\ delivered < MaxInterrupts
  /\ delivered' = delivered + 1
  /\ Dispatched(dispatch(cpu, stack, BREAKPOINT_VECTOR, "None", top.pc), cpu)
  /\ UNCHANGED <<overflow_checks, bump_vars, frame_vars, heap_vars, vga_vars,
                 statics, locks, in_service, last_run>>

\* the bump allocator at work; the frame allocator stays as built
Init ==
  /\ overflow_checks \in BOOLEAN
  /\ InitBump
  /\ InitFrames({<< >>})
  /\ InitHeapIdle
  /\ InitVgaIdle
  /\ InitMachineIdle

Next ==
  \/ \E hs \in HeapStarts, sz \in HeapSizes : SeedAllocator(hs, sz)
  \/ \E size \in Sizes, align \in Aligns : Allocate(size, align)
  \/ \E i \in 1..MaxLive : Deallocate(i)

Spec == Init /\ [][Next]_vars

----------------------------------------------------------------------------
(* init_heap at work: every drawn memory map and the one-region map of the *)
(* heap scenario, every depth of boot-built tables; one allocation        *)
(* follows the call.                                                       *)

\* one usable region [0x100000, 0x200000)
ScenarioMap ==
  <<[start_frame_number |-> 256, end_frame_number |-> 512, region_type |-> "Usable"]>>

\* the drawn memory maps without their empty regions, which list no frame
HeapMemoryMaps ==
  { m \in MemoryMaps :
      \A i \in 1..Len(m) : m[i].start_frame_number < m[i].end_frame_number }

InitHeapSpec ==
  /\ overflow_checks \in BOOLEAN
  /\ InitBump
  /\ InitFrames(HeapMemoryMaps \cup {ScenarioMap})
  /\ mapper \in { [tables |-> BootTables(d), entries |-> {}] : d \in 0..3 }
  /\ heap_init = NotCalled
  /\ InitVgaIdle
  /\ InitMachineIdle

\* the first allocation made once init_heap has returned
AllocateAfterInitHeap(size, align) ==
  heap_init.called /\ last.kind \in {"init", "new"} /\ Allocate(size, align)

NextHeap ==
  \/ InitHeap
  \/ \E size \in Sizes, align \in Aligns : AllocateAfterInitHeap(size, align)

SpecHeap == InitHeapSpec /\ [][NextHeap]_vars

----------------------------------------------------------------------------
(* kernel_main at work from handoff: the boot loader may have left         *)
(* interrupts enabled and page 0 mapped; the controller raises the timer   *)
(* and the keyboard line, the body may execute int3.                       *)

InitKernel ==
  /\ overflow_checks = FALSE
  /\ InitBump
  /\ InitFrames({ScenarioMap})
  /\ mapper \in { [tables |-> BootTables(3), entries |-> e] :
                    e \in {{}, {[page |-> 0, frame |-> BootFrame(0),
                                  flags |-> {PRESENT, WRITABLE}]}} }
  /\ heap_init = NotCalled
  /\ InitVgaIdle
  /\ InitMachine(BOOLEAN, StackAddresses)

NextKernel ==
  \/ Execute
  \/ \E v \in {Timer, Keyboard}, key \in KeyOutcomes \cup {"None"} : Interrupt(v, key)
  \/ Int3

SpecKernel == InitKernel /\ [][NextKernel]_vars

\* the CPU executes the next operation of the running context whenever
\* there is one
SpecKernelFair == SpecKernel /\ WF_vars(Execute)

----------------------------------------------------------------------------
(* src/allocator/bump.rs, src/allocator.rs: alloc and dealloc statement by *)
(* statement behind Locked, called by several callers at once.  Each       *)
(* caller makes one call; its statements interleave with the others'.      *)

\* callers at work at the same time
MaxCallers == 2

Callers == 1..MaxCallers

\* the calls made: alloc with a layout, or dealloc
CallOps ==
  { [kind |-> "alloc", size |-> sz, align |-> al] : sz \in {0, 1, USIZE_MAX}, al \in {1, 2} }
    \cup { [kind |-> "dealloc", size |-> 1, align |-> 1] }

\* a call not yet begun
Call(op) == [op |-> op, pc |-> "lock", alloc_start |-> 0, alloc_end |-> 0, ret |-> null_mut]

\* the allocator seeded with the kernel's heap after k allocations of one byte
RECURSIVE Seeded_with(_)
Seeded_with(k) ==
  IF k = 0 THEN init(new, HEAP_START, HEAP_SIZE)
  ELSE alloc(Seeded_with(k - 1), 1, 1).bump

\* bug variant: lock returns at once
lock_acquired_unchecked(c) == TRUE

\* spin::Mutex::lock returns only once no one holds the lock
lock_acquired(c) == c.lock = 0

\* caller t with its call moved on to statement pc
at(c, t, pc) == [c EXCEPT !.of[t].pc = pc]

\* `let mut bump = self.lock()` of alloc and of dealloc
CallLock(t) ==
  /\ locked.of[t].pc = "lock"
  /\ lock_acquired(locked)
  /\ locked' = [at(locked, t, IF locked.of[t].op.kind = "alloc" THEN "align_up"
                            ELSE "decrement")
                 EXCEPT !.lock = t, !.order = Append(@, t)]
  /\ UNCHANGED <<overflow_checks, bump, inited, halted, live, last, frame_vars, kernel_vars>>

\* alloc: alloc_start = align_up(bump.next, layout.align()) and the match on
\* alloc_start.checked_add(layout.size()); a panic leaves the lock held
AllocAlignUp(t) ==
  /\ locked.of[t].pc = "align_up"
  /\ locked' =
       [at(locked, t,
           IF align_up(bump.next, locked.of[t].op.align).panic THEN "panicked"
           ELSE IF checked_add(align_up(bump.next, locked.of[t].op.align).val,
                               locked.of[t].op.size).some
             THEN "compare" ELSE "return_null")
        EXCEPT !.of[t].alloc_start = align_up(bump.next, locked.of[t].op.align).val,
               !.of[t].alloc_end =
                  checked_add(align_up(bump.next, locked.of[t].op.align).val,
                              locked.of[t].op.size).val]
  /\ UNCHANGED <<overflow_checks, bump, inited, halted, live, last, frame_vars, kernel_vars>>

\* alloc: `if alloc_end > bump.heap_end`
AllocCompare(t) ==
  /\ locked.of[t].pc = "compare"
  /\ locked' = at(locked, t, IF exceeds_heap(locked.of[t].alloc_end, bump.heap_end)
                             THEN "return_null" ELSE "write_next")
  /\ UNCHANGED <<overflow_checks, bump, inited, halted, live, last, frame_vars, kernel_vars>>

\* alloc: bump.next = alloc_end
AllocWriteNext(t) ==
  /\ locked.of[t].pc = "write_next"
  /\ bump' = [bump EXCEPT !.next = locked.of[t].alloc_end]
  /\ locked' = at(locked, t, "count")
  /\ UNCHANGED <<overflow_checks, inited, halted, live, last, frame_vars, kernel_vars>>

\* alloc: bump.allocations += 1
AllocCount(t) ==
  /\ locked.of[t].pc = "count"
  /\ bump' = [bump EXCEPT !.allocations = usize_add(@, 1).val]
  /\ locked' = at(locked, t, IF usize_add(bump.allocations, 1).panic
                             THEN "panicked" ELSE "return")
  /\ UNCHANGED <<overflow_checks, inited, halted, live, last, frame_vars, kernel_vars>>

\* dealloc: bump.allocations -= 1 and `if bump.allocations == 0`
DeallocDecrement(t) ==
  /\ locked.of[t].pc = "decrement"
  /\ bump' = [bump EXCEPT !.allocations = usize_sub(@, 1).val]
  /\ locked' = at(locked, t, IF usize_sub(bump.allocations, 1).panic THEN "panicked"
                             ELSE IF bump'.allocations = 0 THEN "reset"
                             ELSE "return_unit")
  /\ UNCHANGED <<overflow_checks, inited, halted, live, last, frame_vars, kernel_vars>>

\* dealloc: bump.next = bump.heap_start
DeallocReset(t) ==
  /\ locked.of[t].pc = "reset"
  /\ bump' = [bump EXCEPT !.next = bump.heap_start]
  /\ locked' = at(locked, t, "return_unit")
  /\ UNCHANGED <<overflow_checks, inited, halted, live, last, frame_vars, kernel_vars>>

\* the returns of alloc (ptr::null_mut() twice, alloc_start) and the end of
\* dealloc: the guard `bump` is dropped, which releases the lock
CallReturn(t) ==
  /\ locked.of[t].pc \in {"return_null", "return", "return_unit"}
  /\ locked' = [at(locked, t, "done")
                 EXCEPT !.lock = 0,
                        !.of[t].ret = IF locked.of[t].pc = "return"
                                        THEN locked.of[t].alloc_start ELSE null_mut]
  /\ UNCHANGED <<overflow_checks, bump, inited, halted, live, last, frame_vars, kernel_vars>>

----------------------------------------------------------------------------
(* Callers of alloc and dealloc at the same time on the seeded heap; a     *)
(* dealloc is called only for an allocation made before.                   *)

InitLocked ==
  /\ overflow_checks \in BOOLEAN
  /\ \E k \in 0..MaxLive :
       /\ bump = Seeded_with(k)
       /\ locked \in { [lock |-> 0, order |-> << >>, start |-> bump,
                        of |-> [t \in Callers |-> Call(ops[t])]] :
                       ops \in { o \in [Callers -> CallOps] :
                                  Cardinality({t \in Callers : o[t].kind = "dealloc"}) <= k } }
  /\ inited = TRUE
  /\ halted = FALSE
  /\ live = << >>
  /\ last = NoCall
  /\ InitFrames({<< >>})
  /\ InitHeapIdle
  /\ InitVgaIdle
  /\ InitMachineIdle

NextLocked ==
  \E t \in Callers :
    \/ CallLock(t)
    \/ AllocAlignUp(t)
    \/ AllocCompare(t)
    \/ AllocWriteNext(t)
    \/ AllocCount(t)
    \/ DeallocDecrement(t)
    \/ DeallocReset(t)
    \/ CallReturn(t)

SpecLocked == InitLocked /\ [][NextLocked]_vars

----------------------------------------------------------------------------
(* The display writer at work on a screen as the boot left it.             *)

InitDisplay ==
  /\ overflow_checks = FALSE
  /\ InitBump
  /\ InitFrames({<< >>})
  /\ InitHeapIdle
  /\ InitVga(ScreenContents)
  /\ InitMachineIdle

NextVga ==
  \/ \E s \in Strings : CallPrint(s)
  \/ \E s \in Strings : CallPrintln(s)
  \/ CallClearScreen

SpecVga == InitDisplay /\ [][NextVga]_vars

----------------------------------------------------------------------------
(* align_up and alloc as pure functions: every allocator state, every      *)
(* layout.  The allocator is drawn from all values of its fields and one   *)
(* alloc call is applied to it.                                            *)

\* every allocator with heap_start <= next <= heap_end, its heap ending at the
\* cursor or at the top of the address space
AnyBump ==
  UNION { { [heap_start |-> hs, heap_end |-> he, next |-> n, allocations |-> c] :
              hs \in {h \in {0, 1} : h <= n}, he \in {n, USIZE_MAX}, c \in {0, 1} } :
          n \in 0..USIZE_MAX }

InitAlign ==
  /\ overflow_checks \in BOOLEAN
  /\ bump \in AnyBump
  /\ inited = TRUE
  /\ halted = FALSE
  /\ live = << >>
  /\ last = NoCall
  /\ locked = NoCalls
  /\ InitFrames({<< >>})
  /\ InitHeapIdle
  /\ InitVgaIdle
  /\ InitMachineIdle

\* one direct call of alloc on the drawn allocator
AllocOnce(size, align) == last.kind = "new" /\ Allocate(size, align)

NextAlign == \E size \in Sizes, align \in Aligns : AllocOnce(size, align)

SpecAlign == InitAlign /\ [][NextAlign]_vars

----------------------------------------------------------------------------
(* The frame allocator at work on every drawn memory map; the bump         *)
(* allocator stays as constructed.                                         *)

InitFrameAllocator ==
  /\ overflow_checks \in BOOLEAN
  /\ InitBump
  /\ InitFrames(MemoryMaps)
  /\ InitHeapIdle
  /\ InitVgaIdle
  /\ InitMachineIdle

NextFrames == AllocateFrame

SpecFrames == InitFrameAllocator /\ [][NextFrames]_vars

----------------------------------------------------------------------------
(* Properties of the bump allocator *)

\* the smallest multiple of a that is >= n, over the integers
SmallestMultipleAtLeast(n, a) == CHOOSE m \in n..(n + a - 1) : m % a = 0

\* the latest call was an alloc (after init) that returned a block
AllocReturnedBlock == inited /\ last.kind = "alloc" /\ last.ret # null_mut

\* blocks [a.addr, a.addr + a.size) and [b.addr, b.addr + b.size) share no byte
Disjoint(a, b) == a.addr + a.size <= b.addr \/ b.addr + b.size <= a.addr

\* C1 as stated: after init, every non-null address alloc returns lies in
\* [heap_start, heap_end) and its block [addr, addr + size) lies in the heap.
C1_AsStated ==
  AllocReturnedBlock =>
    /\ bump.heap_start <= last.ret /\ last.ret < bump.heap_end
    /\ last.ret + last.size <= bump.heap_end

\* C1 amended: after init, every non-null address alloc returns lies in
\* [heap_start, heap_end], strictly below heap_end when the size is not zero,
\* and its block [addr, addr + size) lies in the heap.
C1_BlockInsideHeap ==
  AllocReturnedBlock =>
    /\ bump.heap_start <= last.ret /\ last.ret <= bump.heap_end
    /\ (last.size > 0 => last.ret < bump.heap_end)
    /\ last.ret + last.size <= bump.heap_end

\* C1 witness: an aligned, non-empty block was returned past the heap's first
\* byte and ends exactly at heap_end.
C1_Witness ==
  /\ AllocReturnedBlock /\ last.size > 0 /\ last.align > 1
  /\ last.ret > bump.heap_start /\ last.ret + last.size = bump.heap_end

\* C2 as stated: the address of every live allocation differs from that of
\* every other live allocation, and their blocks do not overlap.
C2_AsStated ==
  \A i, j \in 1..Len(live) :
    i < j => live[i].addr # live[j].addr /\ Disjoint(live[i], live[j])

\* C2 amended: the blocks of live allocations never overlap, and two live
\* allocations of non-zero size never have the same address.
C2_LiveBlocksDisjoint ==
  \A i, j \in 1..Len(live) :
    i < j =>
      /\ Disjoint(live[i], live[j])
      /\ (live[i].size > 0 /\ live[j].size > 0 => live[i].addr # live[j].addr)

\* C2 witness: a non-empty block was returned while another non-empty block,
\* returned before it, is still live.
C2_Witness ==
  /\ AllocReturnedBlock /\ Len(live) = 2
  /\ live[1].size > 0 /\ live[2].size > 0 /\ live[2].addr = last.ret

\* C3 as stated: every non-null address alloc returns is a multiple of the
\* requested alignment and the smallest such multiple >= next, and align_up
\* gives the result of the remainder-based rounding for every address and
\* every power-of-two alignment.
C3_AsStated ==
  last.kind \in {"alloc", "panic"} =>
    /\ (last.kind = "alloc" /\ last.ret # null_mut =>
          /\ last.ret % last.align = 0
          /\ last.ret = SmallestMultipleAtLeast(last.pre.next, last.align))
    /\ align_up(last.pre.next, last.align) = align_up_verbose(last.pre.next, last.align)

\* C3 amended: every non-null address alloc returns is a multiple of the
\* requested alignment and the smallest such multiple >= next, and align_up
\* gives the result of the remainder-based rounding for every address and
\* power-of-two alignment whose sum addr + align does not overflow usize.
C3_AlignedAndMinimal ==
  last.kind \in {"alloc", "panic"} =>
    LET rounded == [panic |-> FALSE,
                    val |-> SmallestMultipleAtLeast(last.pre.next, last.align)]
    IN /\ (last.kind = "alloc" /\ last.ret # null_mut =>
             last.ret % last.align = 0 /\ last.ret = rounded.val)
       /\ (last.pre.next + last.align <= USIZE_MAX =>
             /\ align_up(last.pre.next, last.align) = rounded
             /\ align_up_verbose(last.pre.next, last.align) = rounded)

\* C3 witness: alloc returned a block whose address had to be rounded up from
\* an unaligned cursor.
C3_Witness ==
  /\ last.kind = "alloc" /\ last.ret # null_mut /\ last.align > 1
  /\ last.pre.next % last.align # 0 /\ last.ret > last.pre.next

\* C4: an alloc whose aligned start plus size is past heap_end (or past the
\* largest usize) returns null and leaves the allocator as it was; an alloc
\* that follows a null return and fits from the cursor returns its block.
C4_FailureLeavesStateUnchanged ==
  last.kind = "alloc" =>
    LET start == SmallestMultipleAtLeast(last.pre.next, last.align)
    IN IF start + last.size > last.pre.heap_end
         THEN last.ret = null_mut /\ bump = last.pre
         ELSE last.after_null =>
                /\ last.ret = start
                /\ bump = [last.pre EXCEPT !.next = start + last.size,
                                           !.allocations = @ + 1]

\* C4 witness: after init, an alloc returned null and the alloc after it, made
\* from the same cursor, returned a block.
C4_Witness ==
  /\ AllocReturnedBlock /\ last.after_null
  /\ last.pre.next > last.pre.heap_start /\ last.size > 0

C6_CursorInHeap ==
  /\ bump.heap_start <= bump.next /\ bump.next <= bump.heap_end
  /\ Len(live) <= bump.allocations /\ bump.allocations <= MaxLive
  /\ ~halted

\* C6 witness: after init, with two blocks live, one was released and the
\* cursor stays strictly inside the heap.
C6_Witness ==
  /\ inited /\ last.kind = "dealloc" /\ bump.allocations = 1
  /\ bump.heap_start < bump.next /\ bump.next < bump.heap_end

----------------------------------------------------------------------------
(* Properties of the frame allocator *)

\* number of frames region r lists when it is usable
FramesListed(r) ==
  IF r.region_type = "Usable" /\ r.end_frame_number > r.start_frame_number
    THEN r.end_frame_number - r.start_frame_number
    ELSE 0

\* the k-th frame (from 0) of the listing of the usable regions of
\* memory_map[i..], region by region, each from its start in steps of 4096
RECURSIVE KthListed(_, _, _)
KthListed(memory_map, i, k) ==
  IF i > Len(memory_map) THEN None
  ELSE IF k < FramesListed(memory_map[i])
    THEN Some((memory_map[i].start_frame_number + k) * 4096)
    ELSE KthListed(memory_map, i + 1, k - FramesListed(memory_map[i]))

\* F: the number of frames the usable regions of memory_map list in total
RECURSIVE TotalListed(_, _)
TotalListed(memory_map, i) ==
  IF i > Len(memory_map) THEN 0
  ELSE FramesListed(memory_map[i]) + TotalListed(memory_map, i + 1)

\* address f lies inside region r
InRegion(f, r) ==
  r.start_frame_number * 4096 <= f /\ f < r.end_frame_number * 4096

\* no two usable regions of the map share a frame
UsableRegionsDisjoint(memory_map) ==
  \A i, j \in 1..Len(memory_map) :
    (i < j /\ FramesListed(memory_map[i]) > 0 /\ FramesListed(memory_map[j]) > 0) =>
      \/ memory_map[i].end_frame_number <= memory_map[j].start_frame_number
      \/ memory_map[j].end_frame_number <= memory_map[i].start_frame_number

\* no two calls returned the same frame
NoFrameTwice ==
  \A i, j \in 1..Len(frames) :
    (i < j /\ frames[i].some /\ frames[j].some) => frames[i].frame # frames[j].frame

\* C7 as stated: for every memory map, no frame is returned by two calls.
C7_AsStated == NoFrameTwice

\* C7 amended: for every memory map whose usable regions are pairwise
\* disjoint, no frame is returned by two calls.
C7_NoFrameTwice ==
  UsableRegionsDisjoint(boot_info.memory_map) => NoFrameTwice

\* C7 witness: the map has two disjoint usable regions and calls returned
\* frames of both.
C7_Witness ==
  /\ Len(boot_info.memory_map) = 2
  /\ UsableRegionsDisjoint(boot_info.memory_map)
  /\ \E i, j \in 1..Len(frames) :
       /\ i < j /\ frames[i].some /\ frames[j].some
       /\ InRegion(frames[i].frame, boot_info.memory_map[1])
       /\ InRegion(frames[j].frame, boot_info.memory_map[2])

\* every returned frame is 4096-aligned and lies in a usable region, and the
\* allocator's map is the one the boot loader passed
ReturnedFromUsable ==
  /\ \A k \in 1..Len(frames) :
       frames[k].some =>
         /\ frames[k].frame % 4096 = 0
         /\ \E i \in 1..Len(boot_info.memory_map) :
              /\ boot_info.memory_map[i].region_type = "Usable"
              /\ InRegion(frames[k].frame, boot_info.memory_map[i])
  /\ frame_allocator.memory_map = boot_info.memory_map

\* C8 as stated: every returned frame is 4096-aligned and inside a usable
\* region, no returned frame lies in a region with another tag, and the
\* memory map is never modified.
C8_AsStated ==
  /\ ReturnedFromUsable
  /\ \A k \in 1..Len(frames) :
       frames[k].some =>
         \A i \in 1..Len(boot_info.memory_map) :
           boot_info.memory_map[i].region_type # "Usable" =>
             ~InRegion(frames[k].frame, boot_info.memory_map[i])

\* C8 amended: every returned frame is 4096-aligned and inside a usable
\* region (so a frame that lies only in regions with other tags is never
\* returned), and the memory map is never modified.
C8_ReturnedFromUsable == ReturnedFromUsable

\* C8 witness: the map holds a reserved region and then a usable one, and a
\* frame above the reserved region was returned.
C8_Witness ==
  /\ Len(boot_info.memory_map) = 2
  /\ boot_info.memory_map[1].region_type = "Reserved"
  /\ boot_info.memory_map[1].end_frame_number > boot_info.memory_map[1].start_frame_number
  /\ boot_info.memory_map[1].end_frame_number <= boot_info.memory_map[2].start_frame_number
  /\ \E k \in 1..Len(frames) :
       frames[k].some /\ InRegion(frames[k].frame, boot_info.memory_map[2])

\* C9: the k-th call (from 0) returns the k-th frame of the listing of the
\* usable regions in map order, and next counts the calls.
C9_KthCallKthFrame ==
  /\ \A k \in 1..Len(frames) : frames[k] = KthListed(boot_info.memory_map, 1, k - 1)
  /\ frame_allocator.next = Len(frames)

\* C9 witness: the second call returned the first frame of the second usable
\* region, which starts below the first one.
C9_Witness ==
  /\ Len(boot_info.memory_map) = 2 /\ Len(frames) = 2
  /\ FramesListed(boot_info.memory_map[1]) = 1
  /\ boot_info.memory_map[2].start_frame_number < boot_info.memory_map[1].start_frame_number
  /\ frames[2] = Some(boot_info.memory_map[2].start_frame_number * 4096)

\* C10: with F frames listed in total, exactly the first F calls return a
\* frame; after a call returned none, no call returns a frame.
C10_ExhaustedForGood ==
  /\ \A k \in 1..Len(frames) :
       frames[k].some <=> k <= TotalListed(boot_info.memory_map, 1)
  /\ \A i, j \in 1..Len(frames) : (i < j /\ ~frames[i].some) => ~frames[j].some

\* C10 witness: a map listing at least two frames was exhausted and two more
\* calls returned none.
C10_Witness ==
  /\ TotalListed(boot_info.memory_map, 1) >= 2
  /\ Len(frames) = TotalListed(boot_info.memory_map, 1) + 2
  /\ frames[Len(frames) - 2].some
  /\ ~frames[Len(frames) - 1].some /\ ~frames[Len(frames)].some

----------------------------------------------------------------------------
(* init_heap *)

\* the pages holding a byte of [HEAP_START, HEAP_START + HEAP_SIZE - 1]
HeapPages ==
  { p \in 0..(2^(USIZE_BITS - PAGE_BITS) - 1) :
      \E a \in HEAP_START..(HEAP_START + HEAP_SIZE - 1) :
        a >= p * 2^PAGE_BITS /\ a < (p + 1) * 2^PAGE_BITS }

\* the frames the frame allocator has handed out
HandedOut == { frames[i].frame : i \in {j \in 1..Len(frames) : frames[j].some} }

EntriesOf(p) == {e \in mapper.entries : e.page = p}

\* every heap page is mapped present and writable to a handed-out frame, no
\* two heap pages share a frame, and no heap page's frame holds a page table
HeapBackedExclusively ==
  /\ \A p \in HeapPages :
       /\ EntriesOf(p) # {}
       /\ \A e \in EntriesOf(p) :
            e.flags = {PRESENT, WRITABLE} /\ e.frame \in HandedOut
  /\ \A e1, e2 \in mapper.entries : e1.page # e2.page => e1.frame # e2.frame
  /\ \A e \in mapper.entries : \A t \in mapper.tables : t.frame # e.frame

\* C11 as stated: whenever init_heap returns success, on any memory map, every
\* heap page is mapped present and writable to a frame of the frame allocator,
\* the frames are pairwise distinct and none is a page-table frame.
C11_AsStated == heap_init.ok => HeapBackedExclusively

\* C11 (amended): when init_heap returns success on a memory map whose usable
\* regions are pairwise disjoint, every page of the heap window is mapped
\* present and writable to a frame obtained from the frame allocator, these
\* frames are pairwise distinct and none of them holds a page table.
C11_HeapBackedExclusively ==
  heap_init.ok /\ UsableRegionsDisjoint(boot_info.memory_map) => HeapBackedExclusively

C11_Witness ==
  /\ heap_init.ok
  /\ UsableRegionsDisjoint(boot_info.memory_map)
  /\ Cardinality(HeapPages) >= 2
  /\ \E t \in mapper.tables : t.frame \in HandedOut
  /\ HeapBackedExclusively

\* the allocator as init_heap is to leave it
Seeded == [heap_start |-> HEAP_START, heap_end |-> HEAP_START + HEAP_SIZE,
           next |-> HEAP_START, allocations |-> 0]

\* C12: on the memory map with the one usable region [0x100000, 0x200000),
\* init_heap succeeds and seeds the bump allocator to exactly
\* [HEAP_START, HEAP_START + HEAP_SIZE); the first allocation after that, of
\* a size that fits the heap and an alignment that divides HEAP_START (as 8
\* bytes aligned to 8 are in the kernel), returns exactly HEAP_START.
C12_ScenarioHeap ==
  boot_info.memory_map = ScenarioMap /\ heap_init.called =>
    /\ heap_init.ok
    /\ last.kind = "init" => bump = Seeded
    /\ last.kind \in {"alloc", "panic"} /\ last.pre = Seeded /\ last.size \in 1..HEAP_SIZE
         /\ HEAP_START % last.align = 0
       => last.kind = "alloc" /\ last.ret = HEAP_START

C12_Witness ==
  /\ boot_info.memory_map = ScenarioMap
  /\ heap_init.ok
  /\ mapper.tables \cap BootTables(3) = {}
  /\ last.kind = "alloc" /\ last.pre = Seeded
  /\ last.size = MaxSize /\ last.align = HEAP_START
  /\ last.ret = HEAP_START

\* C13: when a frame allocation or a page mapping fails during init_heap, the
\* error is returned at that page: no later page is processed, no further
\* frame is asked for, the pages mapped before stay mapped, and the bump
\* allocator is not seeded: heap_start, heap_end and next stay 0 and every
\* later allocation of a non-zero size returns null.
C13_FailureAbortsUnseeded ==
  heap_init.called /\ ~heap_init.ok =>
    /\ heap_init.err = "FrameAllocationFailed"
    /\ heap_init.page \in HeapPages
    /\ \A p \in HeapPages : (p < heap_init.page) <=> (EntriesOf(p) # {})
    /\ frames # << >> /\ ~frames[Len(frames)].some
    /\ \A i \in 1..(Len(frames) - 1) : frames[i].some
    /\ bump.heap_start = 0 /\ bump.heap_end = 0 /\ bump.next = 0
    /\ ~inited
    /\ last.kind \in {"alloc", "panic"} /\ last.size > 0
       => last.kind = "alloc" /\ last.ret = null_mut

C13_Witness ==
  /\ heap_init.called /\ ~heap_init.ok
  /\ \E p \in HeapPages : p < heap_init.page /\ EntriesOf(p) # {}
  /\ last.kind = "alloc" /\ last.size > 0 /\ last.ret = null_mut

----------------------------------------------------------------------------
(* the display writer *)

LastPrint == prints[Len(prints)]

\* s is printable ASCII without a newline and fits in one row
FitsOneRow(s) ==
  Len(s) <= BUFFER_WIDTH /\ \A i \in 1..Len(s) : s[i] \in 32..126

RowBlank(row) ==
  \A col \in 0..(BUFFER_WIDTH - 1) : writer.chars[row][col].ascii_character = SPACE

\* C19: after println of a string s of printable ASCII characters without a
\* newline that fits in one row, written with the cursor at column 0, row
\* BUFFER_HEIGHT - 2 holds the characters of s in columns 0..len(s)-1, the
\* last row is blank and the cursor column is 0.
C19_PrintlnOnSecondToLastRow ==
  (prints # << >> /\ LastPrint.op = "println" /\ FitsOneRow(LastPrint.s)
     /\ LastPrint.pre.column_position = 0) =>
    /\ \A i \in 1..Len(LastPrint.s) :
         writer.chars[BUFFER_HEIGHT - 2][i - 1].ascii_character = LastPrint.s[i]
    /\ RowBlank(BUFFER_HEIGHT - 1)
    /\ writer.column_position = 0
    /\ ~writer.panicked

C19_Witness ==
  /\ Len(prints) = 2
  /\ LastPrint.op = "println" /\ LastPrint.s = Letters(BUFFER_WIDTH)
  /\ LastPrint.pre.column_position = 0
  /\ ~RowBlank(BUFFER_HEIGHT - 3)
  /\ \A col \in 0..(BUFFER_WIDTH - 1) :
       writer.chars[BUFFER_HEIGHT - 2][col].ascii_character = 65

----------------------------------------------------------------------------
(* Descriptor tables, boot order and interrupt handlers under SpecKernel.  *)

\* the operations of kernel_main's trace that are among ops, in order
TraceOf(ops) == SelectSeq([i \in 1..Len(trace) |-> trace[i].op], LAMBDA o : o \in ops)

IsPrefix(a, b) == Len(a) <= Len(b) /\ a = SubSeq(b, 1, Len(a))

\* the contexts running the double-fault handler
DoubleFaultContexts ==
  { i \in 1..Len(stack) : stack[i].code = "double_fault_handler" }

\* C16: the IDT's double-fault entry uses interrupt stack 0; of the TSS only
\* entry 0 is populated and holds the top, start + 20480, of the reserved
\* stack; whenever the IDT is loaded the GDT is loaded and the task register
\* names its TSS; and every run of the double-fault handler is on that stack.
C16_DoubleFaultOnDedicatedStack ==
  /\ statics.IDT.built =>
        statics.IDT.value[DOUBLE_FAULT_VECTOR] =
          [present |-> TRUE, handler |-> "double_fault_handler", ist |-> 0 + 1]
  /\ statics.TSS.built =>
        \A i \in 0..6 :
          statics.TSS.value.interrupt_stack_table[i] =
            IF i = 0 THEN statics.STACK + 20480 ELSE 0
  /\ cpu.idtr.loaded =>
        /\ statics.TSS.built /\ statics.GDT.built
        /\ cpu.gdtr = statics.GDT.value.table
        /\ selects_tss(cpu, cpu.tr)
        /\ cpu.gdtr[cpu.tr.index + 1].tss = statics.TSS.value
        /\ IsPrefix(<<"GDT.load", "load_tss", "IDT.load">>,
                    TraceOf({"GDT.load", "load_tss", "IDT.load"}))
  /\ \A i \in DoubleFaultContexts : stack[i].rsp = statics.STACK + 20480

\* a double fault was dispatched and its handler has printed
C16_Witness ==
  /\ Len(stack) = 2 /\ top.code = "double_fault_handler"
  /\ top.vector = DOUBLE_FAULT_VECTOR
  /\ \E i \in 1..Len(top.events) : top.events[i].op = "write_fmt"

\* the first operation of the kernel's body in kernel_main
BodyStart == CHOOSE i \in 1..Len(kernel_main) : kernel_main[i].op = "write_volatile"

\* the boot steps in the order C17 states them: each named by the operation
\* that completes it
BootOrder ==
  <<"load_tss", "IDT.load", "BootInfoFrameAllocator::init", "memory::init", "init_heap">>

\* C17 as stated: once the kernel's body runs, the boot steps have run in
\* the order descriptor tables, interrupt dispatch, frame allocator, page
\* mapper, init_heap.
C17_AsStated ==
  stack[1].pc >= BodyStart =>
    TraceOf({BootOrder[i] : i \in 1..Len(BootOrder)}) = BootOrder

\* the selectors add_entry returns for the second and the third slot
CodeSelector == [index |-> 1, rpl |-> 0]
TssSelector == [index |-> 2, rpl |-> 0]

\* C20: the steps of gdt::init run in the order GDT load, code selector, task
\* register; the table loaded holds the code and the TSS descriptor; the task
\* register is loaded only with the table already loaded, without a
\* protection fault; the selectors are those add_entry returned.
C20_GdtInitOrder ==
  /\ IsPrefix(TraceOf({"GDT.load", "set_cs", "load_tss"}),
              <<"GDT.load", "set_cs", "load_tss">>)
  /\ machine.fault # GENERAL_PROTECTION_VECTOR
  /\ cpu.gdtr # << >> =>
        /\ cpu.gdtr = statics.GDT.value.table
        /\ [i \in 1..Len(cpu.gdtr) |-> cpu.gdtr[i].kind] =
             <<"null", "code", "tss", "tss_high">>
        /\ cpu.gdtr[3].tss = TSS_build(statics.STACK)
  /\ cpu.cs # NoSelector =>
        /\ cpu.gdtr # << >>
        /\ cpu.cs = CodeSelector /\ cpu.cs = statics.GDT.value.code_selector
        /\ cpu.gdtr[cpu.cs.index + 1].kind = "code"
  /\ cpu.tr # NoSelector =>
        /\ cpu.gdtr # << >> /\ cpu.cs # NoSelector
        /\ cpu.tr = TssSelector /\ cpu.tr = statics.GDT.value.tss_selector
        /\ selects_tss(cpu, cpu.tr)

\* gdt::init has run through
C20_Witness ==
  /\ TraceOf({"GDT.load", "set_cs", "load_tss"}) = <<"GDT.load", "set_cs", "load_tss">>
  /\ cpu.tr = TssSelector /\ cpu.cs = CodeSelector

\* the positions in run's events of the operations named op
EventsOf(run, op) == { i \in 1..Len(run.events) : run.events[i].op = op }

\* the run sent one end-of-interrupt, for its own vector, after its printing
\* and its scancode read
AcknowledgedOnce(run) ==
  \E i \in 1..Len(run.events) :
    /\ EventsOf(run, "notify_end_of_interrupt") = {i}
    /\ run.events[i].arg = run.vector
    /\ run.vector = (IF run.code = "timer_interrupt_handler" THEN 32 ELSE 33)
    /\ \A j \in EventsOf(run, "write_fmt") \cup EventsOf(run, "port.read") : j < i

\* a handler entered for line v is on the CPU
Handling(v) ==
  machine.state = "running" /\ \E i \in 1..Len(stack) : stack[i].vector = v

Spinning ==
  /\ Running /\ Len(stack) > 1
  /\ NextOp.op = "lock"
  /\ locks[NextOp.arg] \in 1..(Len(stack) - 1)

InBreakpoint == machine.state = "running" /\ top.code = "breakpoint_handler"

\* C18: a breakpoint after init enters the breakpoint handler, which never
\* waits for a lock, prints, and returns with no lock of its own held to the
\* operation that followed the breakpoint; every entered run returns.
C18_BreakpointResumes ==
  /\ [](/\ InBreakpoint => top.vector = BREAKPOINT_VECTOR /\ ~Spinning
        /\ last_run.code = "breakpoint_handler" =>
              /\ machine.state = "running"
              /\ last_run.held = {}
              /\ EventsOf(last_run, "write_fmt") # {}
              /\ last_run.resumed_pc = last_run.ret_pc)
  /\ InBreakpoint ~> (~InBreakpoint /\ last_run.code = "breakpoint_handler")

\* the breakpoint handler has returned and kernel_main is about to execute
\* the operation that followed the breakpoint
C18_Witness ==
  /\ last_run.code = "breakpoint_handler"
  /\ Len(stack) = 1 /\ top.pc = last_run.ret_pc
  /\ top.pc <= Len(kernel_main) /\ kernel_main[top.pc].op # "hlt_loop"

\* the keyboard handler is the running context
InKeyboard == machine.state = "running" /\ top.code = "keyboard_interrupt_handler"

\* C21: a keyboard interrupt whose byte the decoder rejects ("Err"), takes as
\* part of a sequence ("Ok(None)") or decodes to no key ("None") never waits
\* for the writer, and its run returns having printed nothing, with the
\* machine running and one end-of-interrupt for vector 33 sent; a run that
\* returns with a decoded key has printed exactly once.
C21_MalformedInputAbsorbed ==
  /\ InKeyboard /\ top.key \in {"Err", "Ok(None)", "None"} =>
        /\ ~Spinning
        /\ EventsOf(top, "write_fmt") = {}
        /\ \A i \in EventsOf(top, "lock") : top.events[i].arg # "WRITER"
  /\ last_run.code = "keyboard_interrupt_handler" =>
        /\ machine.state = "running"
        /\ AcknowledgedOnce(last_run)
        /\ last_run.held = {}
        /\ Cardinality(EventsOf(last_run, "write_fmt")) =
             (IF last_run.key \in {"Unicode", "RawKey"} THEN 1 ELSE 0)

\* a keyboard run on a byte the decoder rejected has returned
C21_Witness ==
  /\ last_run.code = "keyboard_interrupt_handler" /\ last_run.key = "Err"
  /\ EventsOf(last_run, "port.read") # {}

----------------------------------------------------------------------------
(* The bump allocator's release and its count, under Spec.                 *)

\* C23: a dealloc leaves the allocator a function of the allocator before it
\* alone, whatever block is released: the count is one less and, unless it
\* reached 0, next, heap_start and heap_end are as before; next is lower
\* after a call than before it only when the call is the dealloc that brought
\* the count to 0.
C23_DeallocOnlyCounts ==
  /\ last.kind = "dealloc" =>
        /\ bump = (IF last.pre.allocations = 1
                     THEN [last.pre EXCEPT !.allocations = 0, !.next = last.pre.heap_start]
                     ELSE [last.pre EXCEPT !.allocations = @ - 1])
        /\ bump.allocations > 0 =>
              /\ bump.next = last.pre.next
              /\ bump.heap_start = last.pre.heap_start
              /\ bump.heap_end = last.pre.heap_end
  /\ last.kind # "new" /\ bump.next < last.pre.next =>
        last.kind = "dealloc" /\ bump.allocations = 0

\* a block below the top of the used part was released while another
\* allocation stays counted: its bytes lie below the cursor
C23_Witness ==
  /\ last.kind = "dealloc" /\ bump.allocations > 0
  /\ last.size > 0 /\ last.ret + last.size < bump.next

\* C25 as stated: an alloc that returns null leaves next and allocations as
\* they were, an alloc that raises allocations returns a non-null address,
\* and allocations is the number of live blocks, before init too and for
\* zero-size requests.
C25_AsStated ==
  /\ last.kind = "alloc" /\ last.ret = null_mut =>
        bump.next = last.pre.next /\ bump.allocations = last.pre.allocations
  /\ last.kind = "alloc" /\ bump.allocations > last.pre.allocations =>
        last.ret # null_mut
  /\ bump.allocations = Len(live)

\* C25 amended: an alloc that returns null leaves the allocator as it was,
\* except a zero-size alloc before init, which returns address 0 and counts;
\* after init an alloc that changes allocations raises it by one and
\* returns a non-null address; no block is live before init; and after init
\* every step keeps allocations minus the number of live blocks.
C25_CountTracksLive ==
  /\ [](/\ last.kind = "alloc" /\ last.ret = null_mut =>
              \/ bump = last.pre
              \/ /\ ~inited /\ last.size = 0
                 /\ bump = [last.pre EXCEPT !.allocations = @ + 1]
        /\ last.kind = "alloc" /\ inited /\ bump.allocations # last.pre.allocations =>
              last.ret # null_mut /\ bump.allocations = last.pre.allocations + 1
        /\ ~inited => live = << >>
        /\ last.kind = "init" /\ last.pre.allocations = 0 => bump.allocations = Len(live))
  /\ [][inited => bump'.allocations - Len(live') = bump.allocations - Len(live)]_vars

\* after init a zero-size request was counted and returned a non-null
\* address, and the count is the number of live blocks
C25_Witness ==
  /\ inited /\ last.kind = "alloc" /\ last.size = 0 /\ last.ret # null_mut
  /\ bump.allocations = last.pre.allocations + 1
  /\ bump.allocations = Len(live)

----------------------------------------------------------------------------
(* The display writer's bounds, under SpecVga.                             *)

Rows == 0..(BUFFER_HEIGHT - 1)
Cols == 0..(BUFFER_WIDTH - 1)

\* w is mid after one new line: every row moved up by one, the last row
\* blank, the column 0
MovedUp(mid, w) ==
  /\ \A r \in Rows \ {0} : w.chars[r - 1] = mid.chars[r]
  /\ \A col \in Cols : w.chars[BUFFER_HEIGHT - 1][col] = [ascii_character |-> SPACE,
                                                          color_code |-> mid.color_code]
  /\ w.column_position = 0

\* the text of the latest call with the newline println adds
LastText == IF LastPrint.op = "println" THEN LastPrint.s \o <<NEWLINE>> ELSE LastPrint.s

\* the letters of the latest call that still fit on the row of the cursor
Fitting == BUFFER_WIDTH - LastPrint.pre.column_position

\* C24: the column stays in 0..BUFFER_WIDTH and no write leaves the buffer,
\* which keeps its BUFFER_HEIGHT rows of BUFFER_WIDTH cells; a text that ends
\* in a newline leaves the screen that its bytes before the newline left,
\* moved up by one row, the last row blank and the column 0; letters that
\* run past the end of the row fill it, move every row up by one and go on
\* from column 0 of the last row.
C24_WriterStaysInBuffer ==
  /\ writer.column_position \in 0..BUFFER_WIDTH
  /\ ~writer.panicked
  /\ DOMAIN writer.chars = Rows /\ \A r \in Rows : DOMAIN writer.chars[r] = Cols
  /\ (prints # << >> /\ LastPrint.op # "clear_screen" /\ LastText # << >>) =>
        /\ LastText[Len(LastText)] = NEWLINE =>
              MovedUp(write_string(LastPrint.pre, SubSeq(LastText, 1, Len(LastText) - 1)),
                      writer)
        /\ (/\ \A i \in 1..Len(LastText) : LastText[i] = 65
            /\ Len(LastText) - Fitting \in 1..BUFFER_WIDTH) =>
              /\ \A r \in Rows \ {0, BUFFER_HEIGHT - 1} :
                    writer.chars[r - 1] = LastPrint.pre.chars[r]
              /\ \A col \in Cols :
                    writer.chars[BUFFER_HEIGHT - 2][col] =
                      IF col < LastPrint.pre.column_position
                        THEN LastPrint.pre.chars[BUFFER_HEIGHT - 1][col]
                        ELSE [ascii_character |-> 65, color_code |-> Yellow_on_Black]
              /\ \A col \in Cols :
                    writer.chars[BUFFER_HEIGHT - 1][col].ascii_character =
                      IF col < Len(LastText) - Fitting THEN 65 ELSE SPACE
              /\ writer.column_position = Len(LastText) - Fitting

\* a line one letter longer than a row was written from column 0 onto a
\* screen that was not blank: the last letter stands alone on the last row
C24_Witness ==
  /\ prints # << >> /\ LastPrint.op = "print" /\ LastPrint.s = Letters(BUFFER_WIDTH + 1)
  /\ LastPrint.pre.column_position = 0
  /\ LastPrint.pre.chars[BUFFER_HEIGHT - 1][0].ascii_character # SPACE
  /\ writer.column_position = 1
  /\ writer.chars[BUFFER_HEIGHT - 2][BUFFER_WIDTH - 1].ascii_character = 65

----------------------------------------------------------------------------
(* The allocator's lock, under SpecLocked.                                 *)

\* the statements of alloc and dealloc between taking the lock and the return
InCall(t) == locked.of[t].pc \notin {"lock", "done"}

\* the allocator and the addresses returned when the calls of the callers in
\* order run one after the other, each as a whole, from allocator b
RECURSIVE InOrder(_, _, _)
InOrder(b, order, rets) ==
  IF order = << >> THEN [bump |-> b, rets |-> rets]
  ELSE IF locked.of[Head(order)].op.kind = "alloc"
    THEN InOrder(alloc(b, locked.of[Head(order)].op.size, locked.of[Head(order)].op.align).bump,
                 Tail(order),
                 [rets EXCEPT ![Head(order)] =
                    alloc(b, locked.of[Head(order)].op.size,
                          locked.of[Head(order)].op.align).ret])
  ELSE InOrder(dealloc(b).bump, Tail(order), rets)

\* C22: a caller that is between the first and the last statement of alloc or
\* dealloc, on whatever path, holds the lock, so at most one caller is; and
\* whenever the lock is free the allocator and the addresses returned are
\* those of the calls run one after the other in the order the lock was
\* taken.
C22_LockSerializes ==
  /\ \A t \in Callers : InCall(t) => locked.lock = t
  /\ Cardinality({t \in Callers : InCall(t)}) <= 1
  /\ locked.lock = 0 =>
        /\ bump = InOrder(locked.start, locked.order, [t \in Callers |-> null_mut]).bump
        /\ \A t \in Callers :
              locked.of[t].pc = "done" =>
                locked.of[t].ret =
                  InOrder(locked.start, locked.order, [u \in Callers |-> null_mut]).rets[t]

\* a caller waits for the lock while another is between the two writes of a
\* successful alloc
C22_Witness ==
  /\ locked.of[1].pc = "lock" /\ locked.of[1].op.kind = "alloc"
  /\ locked.of[2].pc = "count" /\ locked.lock = 2
  /\ bump.next # locked.start.next /\ bump.allocations = locked.start.allocations

====
